---- MODULE Spec2Model ----
(***************************************************************************)
(* Model of src/c/simple-watchface.c: an analog watchface for the Pebble   *)
(* SDK.  The program is single threaded: main() runs init(), then the      *)
(* host's event loop, then deinit(); the host calls tick_handler once per  *)
(* second and update_proc whenever the canvas layer is dirty.              *)
(*                                                                         *)
(* Fixed-point conventions used for the C float constants:                 *)
(*   - ratios and percentages (0.01f, 0.5f, 0.75f, 0.85f) are kept in      *)
(*     hundredths, and the (int) cast becomes a truncating division by 100 *)
(*   - DEGREES_PER_MINUTE_FOR_HOUR_HAND (0.5f) is kept in half degrees     *)
(***************************************************************************)
EXTENDS Integers, Sequences, FiniteSets, TLC

(***************************************************************************)
(* Constants of the source (lines 7-32) and of pebble.h                    *)
(***************************************************************************)
CLOCK_FACE_BORDER_PERCENT == 1          \* 0.01f, in hundredths
CLOCK_FACE_CORNER_RADIUS == 7
CLOCK_FACE_STROKE_WIDTH == 2

HOUR_MARKER_COUNT == 12
MAJOR_MARKER_INTERVAL == 3
MAJOR_MARKER_LENGTH == 15
MINOR_MARKER_LENGTH == 8
MAJOR_MARKER_WIDTH == 3
MINOR_MARKER_WIDTH == 1
NUMBER_OFFSET_FROM_MARKER == 10

HOUR_HAND_LENGTH_RATIO == 50            \* 0.5f, in hundredths
MINUTE_HAND_LENGTH_RATIO == 75          \* 0.75f, in hundredths
SECOND_HAND_LENGTH_RATIO == 85          \* 0.85f, in hundredths

HOUR_HAND_WIDTH == 5
MINUTE_HAND_WIDTH == 3
SECOND_HAND_WIDTH == 1

CENTER_DOT_RADIUS == 5

DEGREES_PER_HOUR == 30
DEGREES_PER_MINUTE == 6
DEGREES_PER_SECOND == 6
DEGREES_PER_MINUTE_FOR_HOUR_HAND == 1   \* 0.5f, in half degrees

NUMBER_BUFFER_SIZE == 3                 \* static char number_buffer[3]

TRIG_MAX_ANGLE == 65536                 \* pebble.h: 0x10000
TRIG_MAX_RATIO == 65535                 \* pebble.h: 0xffff

(***************************************************************************)
(* Bounds of the model                                                     *)
(***************************************************************************)
MaxTicks == 2      \* seconds the wall clock advances in one run

\* Sizes (w, h) of the window's root layer on the Pebble platforms:
\* aplite/basalt/diorite, chalk, emery.
DisplaySizes == {<<144, 168>>, <<180, 180>>, <<200, 228>>}

\* Wall-clock times at which a run starts.
StartTimes ==
  { [hour |-> 10, min |-> 9,  sec |-> 29],
    [hour |-> 2,  min |-> 59, sec |-> 58],
    [hour |-> 23, min |-> 59, sec |-> 58],
    [hour |-> 0,  min |-> 0,  sec |-> 0] }

\* Every struct tm the clock source can return.
AllTimes == [hour : 0..23, min : 0..59, sec : 0..59]

NullTm == [hour |-> -1, min |-> -1, sec |-> -1]

(***************************************************************************)
(* C arithmetic                                                            *)
(***************************************************************************)
\* C integer division and the (int) cast of a quotient: truncation to zero.
TruncDiv(a, b) == IF a >= 0 THEN a \div b ELSE -((-a) \div b)

Abs(x) == IF x < 0 THEN -x ELSE x

\* The clock source: one second later, wrapping at midnight.
NextSecond(tm) ==
  IF tm.sec < 59 THEN [tm EXCEPT !.sec = tm.sec + 1]
  ELSE IF tm.min < 59 THEN [tm EXCEPT !.sec = 0, !.min = tm.min + 1]
  ELSE [hour |-> (tm.hour + 1) % 24, min |-> 0, sec |-> 0]

(***************************************************************************)
(* Host trigonometry.  sin_lookup/cos_lookup return the sine/cosine of a   *)
(* trig angle scaled by TRIG_MAX_RATIO.  Every angle the program passes is *)
(* degrees_to_trig_angle(d) for a whole degree d, so the table is kept per *)
(* whole degree of the first quadrant.                                     *)
(***************************************************************************)
SinTable ==
  << 0, 1144, 2287, 3430, 4571, 5712, 6850, 7987, 9121, 10252,
     11380, 12505, 13625, 14742, 15854, 16962, 18064, 19161, 20251, 21336,
     22414, 23486, 24550, 25607, 26655, 27696, 28729, 29752, 30767, 31772,
     32767, 33753, 34728, 35693, 36647, 37589, 38521, 39440, 40347, 41243,
     42125, 42995, 43851, 44695, 45524, 46340, 47142, 47929, 48702, 49460,
     50203, 50930, 51642, 52339, 53019, 53683, 54331, 54962, 55577, 56174,
     56755, 57318, 57864, 58392, 58902, 59395, 59869, 60325, 60763, 61182,
     61583, 61965, 62327, 62671, 62996, 63302, 63588, 63855, 64103, 64331,
     64539, 64728, 64897, 65047, 65176, 65286, 65375, 65445, 65495, 65525,
     65535 >>

\* The whole degree a trig angle stands for (inverse of the truncating
\* conversion of degrees_to_trig_angle).
TrigAngleDegrees(angle) ==
  ((angle * 360 + TRIG_MAX_ANGLE - 1) \div TRIG_MAX_ANGLE) % 360

SinDegrees(d) ==
  IF d <= 90 THEN SinTable[d + 1]
  ELSE IF d <= 180 THEN SinTable[(180 - d) + 1]
  ELSE IF d <= 270 THEN -SinTable[(d - 180) + 1]
  ELSE -SinTable[(360 - d) + 1]

sin_lookup(angle) == SinDegrees(TrigAngleDegrees(angle))

cos_lookup(angle) == SinDegrees((TrigAngleDegrees(angle) + 90) % 360)

(***************************************************************************)
(* State                                                                   *)
(***************************************************************************)
VARIABLES
  pc,              \* position of main(): the next statement of init/main
  lifecycle,       \* the host calls main() has made so far, in order
  s_main_window,   \* "null", "created", "destroyed"
  handlers,        \* window handlers registered with the window
  tick_subscribed, \* tick_handler registered with the tick timer service
  s_canvas_layer,  \* the pointer: "null" or "ptr" (never cleared)
  layer,           \* the object it points to: "none", "live", "freed"
  layer_bounds,    \* bounds of the canvas layer
  dirty,           \* the layer awaits a redraw
  tick_pending,    \* a tick event is queued for the event loop
  marks,           \* states of the layer at each layer_mark_dirty call
  clock,           \* the host's wall clock
  ticks,           \* seconds the clock has advanced
  fpc,             \* position of update_proc, "idle" between frames
  i,               \* loop counter of draw_hour_markers
  s_center, s_radius, s_w_radius, s_h_radius,
  number_buffer,   \* static char number_buffer[3], as a digit sequence
  t,               \* the struct tm of this frame (localtime's result)
  nsamples,        \* calls of time(NULL) in this frame
  angles,          \* locals of draw_clock_hands
  ops,             \* draw calls issued in this frame, in order
  prevFrame,       \* the frame completed before this one
  frames,          \* every completed frame
  hin, hout        \* argument and result of the hand-angle computation

vars == <<pc, lifecycle, s_main_window, handlers, tick_subscribed,
          s_canvas_layer, layer, layer_bounds, dirty, tick_pending, marks,
          clock, ticks, fpc, i, s_center, s_radius, s_w_radius, s_h_radius,
          number_buffer, t, nsamples, angles, ops, prevFrame, frames,
          hin, hout>>

mainVars == <<pc, lifecycle, s_main_window, handlers, tick_subscribed>>
layerVars == <<s_canvas_layer, layer, layer_bounds>>
geomVars == <<s_center, s_radius, s_w_radius, s_h_radius>>
frameVars == <<fpc, i, number_buffer, t, nsamples, angles, ops,
               prevFrame, frames>>
handVars == <<hin, hout>>

NoAngles == [tm |-> NullTm,
             hour_degrees |-> -1, minute_degrees |-> -1, second_degrees |-> -1,
             hour_angle |-> -1, minute_angle |-> -1, second_angle |-> -1]

NoFrame == [bounds |-> <<0, 0>>, tm |-> NullTm, angles |-> NoAngles,
            ops |-> <<>>]

(***************************************************************************)
(* Utility functions (lines 52-88)                                         *)
(***************************************************************************)
degrees_to_trig_angle(degrees) == TruncDiv(TRIG_MAX_ANGLE * degrees, 360)

get_point_on_circle(angle, distance_from_center) ==
  [x |-> s_center.x
           + TruncDiv(sin_lookup(angle) * distance_from_center, TRIG_MAX_RATIO),
   y |-> s_center.y
           - TruncDiv(cos_lookup(angle) * distance_from_center, TRIG_MAX_RATIO)]

get_point_on_ellipse(angle, w_radius, h_radius) ==
  [x |-> s_center.x + TruncDiv(sin_lookup(angle) * w_radius, TRIG_MAX_RATIO),
   y |-> s_center.y - TruncDiv(cos_lookup(angle) * h_radius, TRIG_MAX_RATIO)]

is_major_marker(hour_index) == (hour_index % MAJOR_MARKER_INTERVAL) = 0

\* get_display_hour without the special case of index 0
get_display_hour_index(hour_index) == hour_index

get_display_hour(hour_index) == IF hour_index = 0 THEN 12 ELSE hour_index

\* printf's "%d" of a non-negative int: its decimal digits, most significant
\* first.
RECURSIVE DecimalDigits(_)
DecimalDigits(n) ==
  IF n < 10 THEN <<n>> ELSE Append(DecimalDigits(n \div 10), n % 10)

\* snprintf(buffer, size, "%d", n): at most size - 1 characters are stored.
snprintf(size, n) ==
  LET d == DecimalDigits(n)
  IN  IF Len(d) <= size - 1 THEN d ELSE SubSeq(d, 1, size - 1)

(***************************************************************************)
(* Drawing functions (lines 97-232): each returns the draw call it issues  *)
(***************************************************************************)
draw_clock_face ==
  [kind |-> "face",
   rect |-> [x |-> s_center.x - s_w_radius, y |-> s_center.y - s_h_radius,
             w |-> 2 * s_w_radius, h |-> 2 * s_h_radius],
   corner |-> CLOCK_FACE_CORNER_RADIUS,
   width |-> CLOCK_FACE_STROKE_WIDTH,
   color |-> "white"]

draw_hour_marker(hour_index) ==
  LET angle_degrees == hour_index * DEGREES_PER_HOUR
      angle == degrees_to_trig_angle(angle_degrees)
      is_major == is_major_marker(hour_index)
      marker_length == IF is_major THEN MAJOR_MARKER_LENGTH
                       ELSE MINOR_MARKER_LENGTH
      marker_width == IF is_major THEN MAJOR_MARKER_WIDTH
                      ELSE MINOR_MARKER_WIDTH
  IN  [kind |-> "marker",
       index |-> hour_index,
       degrees |-> angle_degrees,
       length |-> marker_length,
       outer |-> get_point_on_ellipse(angle, s_w_radius, s_h_radius),
       inner |-> get_point_on_ellipse(angle, s_w_radius - marker_length,
                                      s_h_radius - marker_length),
       width |-> marker_width,
       color |-> "white"]

\* The numeral of a major marker.  The text rectangle is centred on
\* number_pos with the size the host measures for the text.
draw_hour_number(hour_index) ==
  LET angle_degrees == hour_index * DEGREES_PER_HOUR
      angle == degrees_to_trig_angle(angle_degrees)
      number_distance ==
        s_radius - MAJOR_MARKER_LENGTH - NUMBER_OFFSET_FROM_MARKER
  IN  [kind |-> "numeral",
       index |-> hour_index,
       text |-> snprintf(NUMBER_BUFFER_SIZE, get_display_hour(hour_index)),
       number_pos |-> get_point_on_circle(angle, number_distance),
       color |-> "white"]

draw_hand(angle, length_ratio, width, color) ==
  [from |-> s_center,
   to |-> get_point_on_circle(angle, TruncDiv(s_radius * length_ratio, 100)),
   width |-> width,
   color |-> color]

\* draw_clock_hands with the hour taken on the 24-hour dial (no "% 12")
ClockAngles_hour24(tm) ==
  LET hour_degrees ==
        tm.hour * DEGREES_PER_HOUR
          + TruncDiv(tm.min * DEGREES_PER_MINUTE_FOR_HOUR_HAND, 2)
      minute_degrees == tm.min * DEGREES_PER_MINUTE
      second_degrees == tm.sec * DEGREES_PER_SECOND
  IN  [tm |-> tm,
       hour_degrees |-> hour_degrees,
       minute_degrees |-> minute_degrees,
       second_degrees |-> second_degrees,
       hour_angle |-> degrees_to_trig_angle(hour_degrees),
       minute_angle |-> degrees_to_trig_angle(minute_degrees),
       second_angle |-> degrees_to_trig_angle(second_degrees)]

\* Lines 203-210 of draw_clock_hands: the angles of the three hands.  The
\* product with 0.5f is taken in half degrees; the (int) cast drops the half.
ClockAngles(tm) ==
  LET hour_degrees ==
        (tm.hour % 12) * DEGREES_PER_HOUR
          + TruncDiv(tm.min * DEGREES_PER_MINUTE_FOR_HOUR_HAND, 2)
      minute_degrees == tm.min * DEGREES_PER_MINUTE
      second_degrees == tm.sec * DEGREES_PER_SECOND
  IN  [tm |-> tm,
       hour_degrees |-> hour_degrees,
       minute_degrees |-> minute_degrees,
       second_degrees |-> second_degrees,
       hour_angle |-> degrees_to_trig_angle(hour_degrees),
       minute_angle |-> degrees_to_trig_angle(minute_degrees),
       second_angle |-> degrees_to_trig_angle(second_degrees)]

\* calculate_dimensions taking the overall radius before s_h_radius is
\* assigned, from the value the previous frame left in the global
calculate_dimensions_stale(bounds) ==
  LET w_radius == TruncDiv((bounds[1] \div 2) * (100 - CLOCK_FACE_BORDER_PERCENT),
                           100)
      h_radius == TruncDiv((bounds[2] \div 2) * (100 - CLOCK_FACE_BORDER_PERCENT),
                           100)
  IN  [center |-> [x |-> bounds[1] \div 2, y |-> bounds[2] \div 2],
       w_radius |-> w_radius,
       h_radius |-> h_radius,
       radius |-> IF w_radius < s_h_radius THEN w_radius ELSE s_h_radius]

calculate_dimensions(bounds) ==
  LET w_radius == TruncDiv((bounds[1] \div 2) * (100 - CLOCK_FACE_BORDER_PERCENT),
                           100)
      h_radius == TruncDiv((bounds[2] \div 2) * (100 - CLOCK_FACE_BORDER_PERCENT),
                           100)
  IN  [center |-> [x |-> bounds[1] \div 2, y |-> bounds[2] \div 2],
       w_radius |-> w_radius,
       h_radius |-> h_radius,
       radius |-> IF w_radius < h_radius THEN w_radius ELSE h_radius]

(***************************************************************************)
(* Initial state: the process has started, main() has not run yet.         *)
(* Statics are zero-initialised.                                           *)
(***************************************************************************)
InitProgram ==
  /\ pc = "window_create"
  /\ lifecycle = <<>>
  /\ s_main_window = "null"
  /\ handlers = FALSE
  /\ tick_subscribed = FALSE
  /\ s_canvas_layer = "null"
  /\ layer = "none"
  /\ layer_bounds = <<0, 0>>
  /\ dirty = FALSE
  /\ tick_pending = FALSE
  /\ marks = {}
  /\ ticks = 0
  /\ fpc = "idle"
  /\ i = 0
  /\ s_center = [x |-> 0, y |-> 0]
  /\ s_radius = 0
  /\ s_w_radius = 0
  /\ s_h_radius = 0
  /\ number_buffer = <<>>
  /\ t = NullTm
  /\ nsamples = 0
  /\ angles = NoAngles
  /\ ops = <<>>
  /\ prevFrame = NoFrame
  /\ frames = {}

Init ==
  /\ InitProgram
  /\ clock \in StartTimes
  /\ hin = NullTm
  /\ hout = NoAngles

(***************************************************************************)
(* Event handlers (lines 261-282)                                          *)
(***************************************************************************)
\* main_window_load keeping the new layer in a local that shadows the global
main_window_load_local(bounds) ==
  /\ s_canvas_layer' = s_canvas_layer
  /\ layer' = "live"
  /\ layer_bounds' = bounds
  /\ dirty' = TRUE

\* layer_create(bounds), layer_set_update_proc, layer_add_child: the new
\* child layer awaits its first redraw.
main_window_load(bounds) ==
  /\ s_canvas_layer' = "ptr"
  /\ layer' = "live"
  /\ layer_bounds' = bounds
  /\ dirty' = TRUE

\* layer_destroy(s_canvas_layer); the pointer is left as it is.
main_window_unload ==
  /\ layer' = IF s_canvas_layer = "ptr" THEN "freed" ELSE layer
  /\ dirty' = FALSE
  /\ UNCHANGED <<s_canvas_layer, layer_bounds>>

\* layer_mark_dirty(s_canvas_layer); tick_time is not read.
tick_handler ==
  /\ pc = "loop"
  /\ fpc = "idle"
  /\ tick_pending
  /\ tick_pending' = FALSE
  /\ marks' = marks \cup {IF s_canvas_layer = "null" THEN "null" ELSE layer}
  /\ dirty' = (dirty \/ (s_canvas_layer = "ptr" /\ layer = "live"))
  /\ UNCHANGED <<mainVars, layerVars, clock, ticks, geomVars, frameVars,
                 handVars>>

(***************************************************************************)
(* Lifecycle (lines 291-319)                                               *)
(***************************************************************************)
\* init, line 292-293: window_create, window_set_background_color
init_window_create ==
  /\ pc = "window_create"
  /\ s_main_window' = "created"
  /\ lifecycle' = Append(lifecycle, "window_create")
  /\ pc' = "set_window_handlers"
  /\ UNCHANGED <<handlers, tick_subscribed, layerVars, dirty, tick_pending,
                 marks, clock, ticks, geomVars, frameVars, handVars>>

\* init subscribing to the tick service together with the window handlers,
\* before the window is pushed
init_set_window_handlers_and_tick ==
  /\ pc = "set_window_handlers"
  /\ handlers' = TRUE
  /\ tick_subscribed' = TRUE
  /\ lifecycle' = lifecycle \o <<"set_window_handlers",
                                 "tick_timer_service_subscribe">>
  /\ pc' = "window_stack_push"
  /\ UNCHANGED <<s_main_window, layerVars, dirty, tick_pending, marks, clock,
                 ticks, geomVars, frameVars, handVars>>

\* init, line 295-298
init_set_window_handlers ==
  /\ pc = "set_window_handlers"
  /\ handlers' = TRUE
  /\ lifecycle' = Append(lifecycle, "set_window_handlers")
  /\ pc' = "window_stack_push"
  /\ UNCHANGED <<s_main_window, tick_subscribed, layerVars, dirty,
                 tick_pending, marks, clock, ticks, geomVars, frameVars,
                 handVars>>

\* init, line 300: the host loads the window while pushing it, calling the
\* load handler if one is registered, with the bounds of the display.
init_window_stack_push ==
  /\ pc = "window_stack_push"
  /\ lifecycle' = Append(lifecycle, "window_stack_push")
  /\ pc' = "tick_subscribe"
  /\ IF handlers
       THEN \E bounds \in DisplaySizes : main_window_load(bounds)
       ELSE UNCHANGED <<layerVars, dirty>>
  /\ UNCHANGED <<s_main_window, handlers, tick_subscribed, tick_pending,
                 marks, clock, ticks, geomVars, frameVars, handVars>>

\* init, line 301
init_tick_timer_service_subscribe ==
  /\ pc = "tick_subscribe"
  /\ tick_subscribed' = TRUE
  /\ lifecycle' = Append(lifecycle, "tick_timer_service_subscribe")
  /\ pc' = "app_event_loop"
  /\ UNCHANGED <<s_main_window, handlers, layerVars, dirty, tick_pending,
                 marks, clock, ticks, geomVars, frameVars, handVars>>

\* main, line 316: the event loop starts
app_event_loop ==
  /\ pc = "app_event_loop"
  /\ lifecycle' = Append(lifecycle, "app_event_loop")
  /\ pc' = "loop"
  /\ UNCHANGED <<s_main_window, handlers, tick_subscribed, layerVars, dirty,
                 tick_pending, marks, clock, ticks, geomVars, frameVars,
                 handVars>>

\* main, line 316: the host ends the event loop (between callbacks); events
\* still queued are not delivered.
app_event_loop_exit ==
  /\ pc = "loop"
  /\ fpc = "idle"
  /\ lifecycle' = Append(lifecycle, "app_event_loop_exit")
  /\ pc' = "deinit"
  /\ UNCHANGED <<s_main_window, handlers, tick_subscribed, layerVars, dirty,
                 tick_pending, marks, clock, ticks, geomVars, frameVars,
                 handVars>>

\* deinit, line 308: window_destroy unloads the window it destroys, calling
\* the unload handler if one is registered.
deinit ==
  /\ pc = "deinit"
  /\ s_main_window' = "destroyed"
  /\ lifecycle' = Append(lifecycle, "window_destroy")
  /\ pc' = "done"
  /\ IF handlers THEN main_window_unload ELSE UNCHANGED <<layerVars, dirty>>
  /\ UNCHANGED <<handlers, tick_subscribed, tick_pending, marks, clock, ticks,
                 geomVars, frameVars, handVars>>

(***************************************************************************)
(* Host                                                                    *)
(***************************************************************************)
\* The wall clock advances by one second, at any point of the run, also in
\* the middle of a frame; a subscribed tick service queues a tick event.
clock_tick ==
  /\ pc # "done"
  /\ ticks < MaxTicks
  /\ ticks' = ticks + 1
  /\ clock' = NextSecond(clock)
  /\ tick_pending' = (tick_pending \/ tick_subscribed)
  /\ UNCHANGED <<mainVars, layerVars, dirty, marks, geomVars, frameVars,
                 handVars>>

\* The host marks the layer dirty for a reason of its own (the window is
\* exposed again after a system overlay).
host_invalidate ==
  /\ pc = "loop"
  /\ fpc = "idle"
  /\ layer = "live"
  /\ ~dirty
  /\ dirty' = TRUE
  /\ UNCHANGED <<mainVars, layerVars, tick_pending, marks, clock, ticks,
                 geomVars, frameVars, handVars>>

(***************************************************************************)
(* update_proc (lines 241-252), one action per statement.  The host calls  *)
(* it from the event loop for a dirty layer; callbacks do not overlap.     *)
(***************************************************************************)
FrameRecord == [bounds |-> layer_bounds, tm |-> t, angles |-> angles,
                ops |-> ops]

\* the frame is complete: update_proc has returned
FrameDone == fpc = "idle" /\ ops # <<>>

\* line 242-244: calculate_dimensions(layer), set fill colour
update_proc ==
  /\ pc = "loop"
  /\ fpc = "idle"
  /\ dirty
  /\ layer = "live"
  /\ dirty' = FALSE
  /\ LET d == calculate_dimensions(layer_bounds)
     IN  /\ s_center' = d.center
         /\ s_w_radius' = d.w_radius
         /\ s_h_radius' = d.h_radius
         /\ s_radius' = d.radius
  /\ prevFrame' = IF FrameDone THEN FrameRecord ELSE prevFrame
  /\ ops' = <<>>
  /\ t' = NullTm
  /\ nsamples' = 0
  /\ angles' = NoAngles
  /\ fpc' = "face"
  /\ UNCHANGED <<mainVars, layerVars, tick_pending, marks, clock, ticks, i,
                 number_buffer, frames, handVars>>

\* line 246
update_proc_draw_clock_face ==
  /\ fpc = "face"
  /\ ops' = Append(ops, draw_clock_face)
  /\ i' = 0
  /\ fpc' = "marker"
  /\ UNCHANGED <<mainVars, layerVars, dirty, tick_pending, marks, clock,
                 ticks, geomVars, number_buffer, t, nsamples, angles,
                 prevFrame, frames, handVars>>

\* draw_hour_markers, line 181-182: loop test and draw_hour_marker(ctx, i)
draw_hour_markers_marker ==
  /\ fpc = "marker"
  /\ IF i < HOUR_MARKER_COUNT
       THEN /\ ops' = Append(ops, draw_hour_marker(i))
            /\ fpc' = "number"
       ELSE /\ ops' = ops
            /\ fpc' = "time"
  /\ UNCHANGED <<mainVars, layerVars, dirty, tick_pending, marks, clock,
                 ticks, i, geomVars, number_buffer, t, nsamples, angles,
                 prevFrame, frames, handVars>>

\* draw_hour_markers, line 183 and the loop increment: draw_hour_number
\* returns at once for a minor marker.
draw_hour_markers_number ==
  /\ fpc = "number"
  /\ IF is_major_marker(i)
       THEN /\ ops' = Append(ops, draw_hour_number(i))
            /\ number_buffer' = snprintf(NUMBER_BUFFER_SIZE, get_display_hour(i))
       ELSE UNCHANGED <<ops, number_buffer>>
  /\ i' = i + 1
  /\ fpc' = "marker"
  /\ UNCHANGED <<mainVars, layerVars, dirty, tick_pending, marks, clock,
                 ticks, geomVars, t, nsamples, angles, prevFrame, frames,
                 handVars>>

\* line 249-250: time(NULL), localtime(&now)
update_proc_time ==
  /\ fpc = "time"
  /\ t' = clock
  /\ nsamples' = nsamples + 1
  /\ fpc' = "angles"
  /\ UNCHANGED <<mainVars, layerVars, dirty, tick_pending, marks, clock,
                 ticks, i, geomVars, number_buffer, angles, ops, prevFrame,
                 frames, handVars>>

\* draw_clock_hands, line 203-210
draw_clock_hands_angles ==
  /\ fpc = "angles"
  /\ angles' = ClockAngles(t)
  /\ fpc' = "hour"
  /\ UNCHANGED <<mainVars, layerVars, dirty, tick_pending, marks, clock,
                 ticks, i, geomVars, number_buffer, t, nsamples, ops,
                 prevFrame, frames, handVars>>

HandOp(kind, a, degrees, angle, length_ratio, width, color) ==
  [kind |-> kind, tm |-> a.tm, degrees |-> degrees, angle |-> angle,
   line |-> draw_hand(angle, length_ratio, width, color)]

\* draw_clock_hands drawing the minute hand in the hour hand's place
draw_clock_hands_hour_swapped ==
  /\ fpc = "hour"
  /\ ops' = Append(ops, HandOp("minute_hand", angles, angles.minute_degrees,
                               angles.minute_angle, MINUTE_HAND_LENGTH_RATIO,
                               MINUTE_HAND_WIDTH, "white"))
  /\ fpc' = "minute"
  /\ UNCHANGED <<mainVars, layerVars, dirty, tick_pending, marks, clock,
                 ticks, i, geomVars, number_buffer, t, nsamples, angles,
                 prevFrame, frames, handVars>>

\* draw_clock_hands, line 213
draw_clock_hands_hour ==
  /\ fpc = "hour"
  /\ ops' = Append(ops, HandOp("hour_hand", angles, angles.hour_degrees,
                               angles.hour_angle, HOUR_HAND_LENGTH_RATIO,
                               HOUR_HAND_WIDTH, "white"))
  /\ fpc' = "minute"
  /\ UNCHANGED <<mainVars, layerVars, dirty, tick_pending, marks, clock,
                 ticks, i, geomVars, number_buffer, t, nsamples, angles,
                 prevFrame, frames, handVars>>

\* draw_clock_hands, line 214
draw_clock_hands_minute ==
  /\ fpc = "minute"
  /\ ops' = Append(ops, HandOp("minute_hand", angles, angles.minute_degrees,
                               angles.minute_angle, MINUTE_HAND_LENGTH_RATIO,
                               MINUTE_HAND_WIDTH, "white"))
  /\ fpc' = "second"
  /\ UNCHANGED <<mainVars, layerVars, dirty, tick_pending, marks, clock,
                 ticks, i, geomVars, number_buffer, t, nsamples, angles,
                 prevFrame, frames, handVars>>

\* the second hand drawn from a fresh reading of the clock
draw_clock_hands_second_resample ==
  /\ fpc = "second"
  /\ nsamples' = nsamples + 1
  /\ LET a == ClockAngles(clock)
     IN  ops' = Append(ops, HandOp("second_hand", a, a.second_degrees,
                                   a.second_angle, SECOND_HAND_LENGTH_RATIO,
                                   SECOND_HAND_WIDTH, "red"))
  /\ fpc' = "dot"
  /\ UNCHANGED <<mainVars, layerVars, dirty, tick_pending, marks, clock,
                 ticks, i, geomVars, number_buffer, t, angles,
                 prevFrame, frames, handVars>>

\* draw_clock_hands, line 215
draw_clock_hands_second ==
  /\ fpc = "second"
  /\ ops' = Append(ops, HandOp("second_hand", angles, angles.second_degrees,
                               angles.second_angle, SECOND_HAND_LENGTH_RATIO,
                               SECOND_HAND_WIDTH, "red"))
  /\ fpc' = "dot"
  /\ UNCHANGED <<mainVars, layerVars, dirty, tick_pending, marks, clock,
                 ticks, i, geomVars, number_buffer, t, nsamples, angles,
                 prevFrame, frames, handVars>>

\* draw_clock_hands, line 218-219, and the return of update_proc
draw_clock_hands_center_dot ==
  /\ fpc = "dot"
  /\ LET done == Append(ops, [kind |-> "center_dot", center |-> s_center,
                              radius |-> CENTER_DOT_RADIUS,
                              color |-> "white"])
     IN  /\ ops' = done
         /\ frames' = frames \cup {[FrameRecord EXCEPT !.ops = done]}
  /\ fpc' = "idle"
  /\ UNCHANGED <<mainVars, layerVars, dirty, tick_pending, marks, clock,
                 ticks, i, geomVars, number_buffer, t, nsamples, angles,
                 prevFrame, handVars>>

Next ==
  \/ init_window_create
  \/ init_set_window_handlers
  \/ init_window_stack_push
  \/ init_tick_timer_service_subscribe
  \/ app_event_loop
  \/ app_event_loop_exit
  \/ deinit
  \/ clock_tick
  \/ host_invalidate
  \/ tick_handler
  \/ update_proc
  \/ update_proc_draw_clock_face
  \/ draw_hour_markers_marker
  \/ draw_hour_markers_number
  \/ update_proc_time
  \/ draw_clock_hands_angles
  \/ draw_clock_hands_hour
  \/ draw_clock_hands_minute
  \/ draw_clock_hands_second
  \/ draw_clock_hands_center_dot

Spec == Init /\ [][Next]_vars

(***************************************************************************)
(* The hand-angle computation of draw_clock_hands over every time the      *)
(* clock source can return.                                                *)
(***************************************************************************)
InitHands ==
  /\ InitProgram
  /\ hin \in AllTimes
  /\ clock = hin
  /\ hout = NoAngles

draw_clock_hands_apply ==
  /\ hout = NoAngles
  /\ hout' = ClockAngles(hin)
  /\ UNCHANGED <<mainVars, layerVars, dirty, tick_pending, marks, clock,
                 ticks, geomVars, frameVars, hin>>

NextHands == draw_clock_hands_apply

SpecHands == InitHands /\ [][NextHands]_vars

(***************************************************************************)
(* Properties                                                              *)
(***************************************************************************)
HandKinds == {"hour_hand", "minute_hand", "second_hand"}

Markers == SelectSeq(ops, LAMBDA o : o.kind = "marker")
Numerals == SelectSeq(ops, LAMBDA o : o.kind = "numeral")
OpsOfKind(kind) == {k \in 1..Len(ops) : ops[k].kind = kind}

\* C1: for every time sample the hour-hand angle of draw_clock_hands is
\* (hour mod 12) x 30 + minute x 0.5 degrees, the half degree of an odd
\* minute included; at 10:09:30 it is 304.5 (minute 54, second 180).
\* Stated in half degrees.
C1_HourAngleExact ==
  hout # NoAngles =>
    /\ 2 * hout.hour_degrees = (hin.hour % 12) * 60 + hin.min
    /\ (hin = [hour |-> 10, min |-> 9, sec |-> 30] =>
          /\ 2 * hout.hour_degrees = 609
          /\ hout.minute_degrees = 54
          /\ hout.second_degrees = 180)

\* C2: across an hour boundary the hour-hand angle advances by exactly half
\* a degree modulo 360: of two successive frames sampled at h:59 and at
\* (h+1 mod 24):00, the second frame's hour angle exceeds the first's by
\* 0.5 degrees.  Stated in half degrees.
C2_HourBoundaryContinuous ==
  ( /\ FrameDone
    /\ prevFrame # NoFrame
    /\ prevFrame.tm.min = 59
    /\ t.min = 0
    /\ t.hour = (prevFrame.tm.hour + 1) % 24 ) =>
    (2 * angles.hour_degrees - 2 * prevFrame.angles.hour_degrees) % 720 = 1

\* C3: every frame samples the clock exactly once and all of its hands are
\* derived from that sample, whatever the clock and the tick service do
\* while the frame is drawn.
C3_SingleTimeSample ==
  /\ nsamples <= 1
  /\ (fpc \in {"angles", "hour", "minute", "second", "dot"} => nsamples = 1)
  /\ (FrameDone => nsamples = 1)
  /\ \A k \in 1..Len(ops) :
       ops[k].kind \in HandKinds => (nsamples = 1 /\ ops[k].tm = t)

\* a frame in which the hour and minute hands are drawn, the clock has moved
\* on since the sample and a tick has arrived
C3_Witness ==
  /\ fpc = "second"
  /\ clock # t
  /\ tick_pending

\* C4: a frame's geometry depends only on its bounds and time sample: the
\* globals hold the dimensions of the current bounds whenever a point is
\* placed, and any two completed frames with the same bounds and time have
\* identical draw calls.
C4_FrameDeterministic ==
  /\ (fpc # "idle" =>
        LET d == [center |-> [x |-> layer_bounds[1] \div 2,
                              y |-> layer_bounds[2] \div 2],
                  w_radius |-> ((layer_bounds[1] \div 2) * 99) \div 100,
                  h_radius |-> ((layer_bounds[2] \div 2) * 99) \div 100]
        IN  /\ s_center = d.center
            /\ s_w_radius = d.w_radius
            /\ s_h_radius = d.h_radius
            /\ s_radius = IF d.w_radius < d.h_radius THEN d.w_radius
                          ELSE d.h_radius)
  /\ \A f, g \in frames :
       (f.bounds = g.bounds /\ f.tm = g.tm) => f.ops = g.ops

\* two successive frames with the same bounds and time, after an earlier
\* frame with another time
C4_Witness ==
  /\ FrameDone
  /\ prevFrame # NoFrame
  /\ prevFrame.tm = t
  /\ prevFrame.bounds = layer_bounds
  /\ \E f \in frames : f.tm # t

RectDisplaySizes == {<<144, 168>>, <<200, 228>>}

\* C5: on a rectangular display the outer endpoint of every marker lies on
\* the edge of the face rectangle.
C5_MarkersOnRectangle ==
  layer_bounds \in RectDisplaySizes =>
    \A k \in 1..Len(Markers) :
      \/ Abs(Markers[k].outer.x - s_center.x) = s_w_radius
      \/ Abs(Markers[k].outer.y - s_center.y) = s_h_radius

\* C6: a frame draws exactly 12 markers, marker i at i x 30 degrees, major
\* (length 15, width 3) exactly when 3 divides i and minor (8, 1) otherwise;
\* exactly the major markers get a numeral, 12 for index 0 and i otherwise.
C6_MarkerLayout ==
  /\ Len(Markers) <= 12
  /\ \A k \in 1..Len(Markers) :
       LET m == Markers[k]
       IN  /\ m.index = k - 1
           /\ m.degrees = (k - 1) * 30
           /\ IF (k - 1) % 3 = 0
                THEN m.length = 15 /\ m.width = 3
                ELSE m.length = 8 /\ m.width = 1
  /\ \A k \in OpsOfKind("numeral") :
       /\ ops[k].index % 3 = 0
       /\ k > 1 /\ ops[k - 1].kind = "marker"
       /\ ops[k - 1].index = ops[k].index
       /\ ops[k].text = IF ops[k].index = 0 THEN <<1, 2>>
                        ELSE <<ops[k].index>>
  /\ \A k \in OpsOfKind("marker") :
       (ops[k].index % 3 = 0 /\ k < Len(ops)) => ops[k + 1].kind = "numeral"
  /\ (ops # <<>> /\ fpc \notin {"face", "marker", "number"}) =>
       /\ Len(Markers) = 12
       /\ [k \in 1..Len(Numerals) |-> Numerals[k].text]
            = << <<1, 2>>, <<3>>, <<6>>, <<9>> >>

C6_Witness == FrameDone /\ Len(Markers) = 12 /\ Len(Numerals) = 4

\* C7: the minute-hand angle is minute x 6 and the second-hand angle is
\* second x 6 degrees (59 gives 354, 0 gives 0), and every angle passed to
\* degrees_to_trig_angle, the hour hand's included, is in 0..359.
C7_HandAnglesInRange ==
  hout # NoAngles =>
    /\ hout.minute_degrees = hin.min * 6
    /\ hout.second_degrees = hin.sec * 6
    /\ (hin.min = 59 => hout.minute_degrees = 354)
    /\ (hin.min = 0 => hout.minute_degrees = 0)
    /\ (hin.sec = 59 => hout.second_degrees = 354)
    /\ (hin.sec = 0 => hout.second_degrees = 0)
    /\ hout.hour_degrees \in 0..359
    /\ hout.minute_degrees \in 0..359
    /\ hout.second_degrees \in 0..359

C7_Witness ==
  /\ hout # NoAngles
  /\ hin = [hour |-> 23, min |-> 59, sec |-> 59]

Phase(kind) ==
  CASE kind = "face" -> 1
    [] kind \in {"marker", "numeral"} -> 2
    [] kind = "hour_hand" -> 3
    [] kind = "minute_hand" -> 4
    [] kind = "second_hand" -> 5
    [] kind = "center_dot" -> 6

\* C8: within a frame the draw calls come in the order face outline, all
\* markers with their numerals, hour hand, minute hand, second hand, centre
\* dot: no hand before the last marker, nothing after the centre dot.
C8_DrawOrder ==
  /\ \A j, k \in 1..Len(ops) :
       j < k => Phase(ops[j].kind) <= Phase(ops[k].kind)
  /\ \A kind \in {"face", "center_dot"} \cup HandKinds :
       Cardinality(OpsOfKind(kind)) <= 1
  /\ (ops # <<>> => ops[1].kind = "face")
  /\ (OpsOfKind("hour_hand") # {} => Len(Markers) = 12)
  /\ (OpsOfKind("minute_hand") # {} => OpsOfKind("hour_hand") # {})
  /\ (OpsOfKind("second_hand") # {} => OpsOfKind("minute_hand") # {})
  /\ (OpsOfKind("center_dot") # {} =>
        /\ OpsOfKind("second_hand") # {}
        /\ ops[Len(ops)].kind = "center_dot")
  /\ (FrameDone => ops[Len(ops)].kind = "center_dot")

C8_Witness == FrameDone /\ Len(ops) = 21

\* position of a host call in the lifecycle, 0 if it has not been made
RECURSIVE PosFrom(_, _)
PosFrom(e, k) ==
  IF k > Len(lifecycle) THEN 0
  ELSE IF lifecycle[k] = e THEN k
  ELSE PosFrom(e, k + 1)
Pos(e) == PosFrom(e, 1)
Before(a, b) == Pos(b) # 0 => (Pos(a) # 0 /\ Pos(a) < Pos(b))

\* C9 as stated: window created, then the load/unload handlers and the tick
\* handler registered, then the window pushed, then the event loop, and the
\* window destroyed after the loop has exited.
C9_OriginalOrder ==
  /\ Before("window_create", "set_window_handlers")
  /\ Before("window_create", "tick_timer_service_subscribe")
  /\ Before("set_window_handlers", "window_stack_push")
  /\ Before("tick_timer_service_subscribe", "window_stack_push")
  /\ Before("window_stack_push", "app_event_loop")
  /\ Before("app_event_loop", "app_event_loop_exit")
  /\ Before("app_event_loop_exit", "window_destroy")

\* C9: the entry point creates the window, then registers the load/unload
\* handlers, then pushes the window, then registers the tick handler, then
\* runs the event loop, and destroys the window only after the loop has
\* exited; each step happens once.
C9_LifecycleOrder ==
  /\ Before("window_create", "set_window_handlers")
  /\ Before("set_window_handlers", "window_stack_push")
  /\ Before("window_stack_push", "tick_timer_service_subscribe")
  /\ Before("tick_timer_service_subscribe", "app_event_loop")
  /\ Before("app_event_loop", "app_event_loop_exit")
  /\ Before("app_event_loop_exit", "window_destroy")
  /\ \A j, k \in 1..Len(lifecycle) : lifecycle[j] = lifecycle[k] => j = k
  /\ (s_main_window = "destroyed" <=> Pos("window_destroy") # 0)
  /\ (tick_subscribed <=> Pos("tick_timer_service_subscribe") # 0)
  /\ (handlers <=> Pos("set_window_handlers") # 0)

C9_Witness == pc = "done" /\ Len(lifecycle) = 7

\* C10: tick_handler calls layer_mark_dirty only on a canvas layer that
\* main_window_load has created and main_window_unload has not destroyed.
C10_TickOnLiveLayer == marks \subseteq {"live"}

\* a tick was handled, and after the unload the pointer dangles with the
\* subscription still in place and a tick still queued
C10_Witness ==
  /\ "live" \in marks
  /\ pc = "done"
  /\ s_canvas_layer = "ptr"
  /\ layer = "freed"
  /\ tick_subscribed
  /\ tick_pending

====
